---------------------------- MODULE Spec2Model ----------------------------
(***************************************************************************)
(* AdminForthAdapterS3Storage (src/index.ts): the adapter's operations as  *)
(* a state machine over the adapter instances and the bucket they address. *)
(* Every `await this.s3.send(...)` is one step, so that the requests of    *)
(* concurrently pending promises interleave at the storage service.        *)
(***************************************************************************)
EXTENDS Integers, Sequences, FiniteSets, TLC

CLEANUP_TAG_KEY == "adminforth-candidate-for-cleanup"
CLEANUP_RULE_ID == "adminforth-unused-cleaner"
DefaultExpiresIn == 3600

\* ---- bounds of the model ----
MaxSetups == 3        \* setupLifecycle invocations in one behaviour
MaxExternal == 1      \* lifecycle writes by parties other than the adapter

Adapters == {"a1", "a2"}
Calls == {"c1", "c2"}                 \* setupLifecycle promises pending at once
Keys == {"f/1.png"}
Bucket == "assets"
Region == "us-east-1"
CredValues == {"undefined", "", "AKIA"}
AclValues == {"undefined", "private", "public-read"}
ContentTypes == {"image/png"}
ExpiresArgs == {<<>>, <<900>>}        \* <<>>: the argument is omitted
ServiceErrors == {"AccessDenied"}     \* failures the service may answer with
OtherRule == "archive-logs"
OtherTag == <<"owner", "ops">>

VARIABLES
    options,       \* adapter -> the AdapterOptions it was constructed with
    s3,            \* adapter -> its client: 0 unset, n the n-th it created
    bucketExists,  \* whether the configured bucket exists at the service
    lifecycle,     \* the bucket's lifecycle configuration
    objects,       \* key -> whether the object exists, and its tag set
    calls,         \* the setupLifecycle calls
    nSetups,       \* setupLifecycle invocations so far
    nExternal,     \* lifecycle writes by other parties so far
    clean,         \* a setup succeeded and no other party wrote since
    ready,         \* adapter -> a setupLifecycle call on it has succeeded
    lastMark,      \* key -> the last mark operation that succeeded on it
    last           \* the last per-key operation and its result

vars == <<options, s3, bucketExists, lifecycle, objects, calls,
          nSetups, nExternal, clean, ready, lastMark, last>>

\* ---- values ----
OptionSets == [accessKeyId : CredValues, secretAccessKey : CredValues,
               s3ACL : AclValues]

\* JavaScript truthiness of an optional string
Truthy(v) == v \notin {"undefined", ""}

NoRules == <<>>
LifecycleConfigs ==
    {[present |-> FALSE, rules |-> NoRules]} \cup
    [present : {TRUE},
     rules : {<<>>, <<OtherRule>>, <<CLEANUP_RULE_ID>>,
              <<OtherRule, CLEANUP_RULE_ID>>}]

TagSets == SUBSET {<<CLEANUP_TAG_KEY, "true">>, OtherTag}

\* A setupLifecycle call: where it stands (pc), its local ruleExists, the
\* error it threw (err, <<>> for none) and the requests it sent (reqs).
\* History kept for the properties: the failure each request met (cause,
\* readErr, putErr), the rules the read returned (seen), whether the call
\* began right after a successful setup (inSucc) and whether another party
\* wrote the lifecycle configuration since it began (disturbed).
IdleCall == [adapter |-> "a1", pc |-> "idle", ruleExists |-> FALSE,
             err |-> <<>>, reqs |-> <<>>, cause |-> "", readErr |-> "",
             putErr |-> "", seen |-> NoRules, inSucc |-> FALSE,
             disturbed |-> FALSE]

NoUrl == [host |-> <<>>, path |-> "", expires |-> <<>>, signed |-> FALSE]
\* The last per-key operation: its arguments, how it ended (outcome), the
\* request it put through the client (request, "" for none) and what it
\* returned (url, extra). History kept for the properties: the adapter's
\* standing when it was called (readyAtCall, settledAtCall, client) and the
\* key's tags before it (before).
NoOp == [op |-> "none", adapter |-> "a1", key |-> "", arg |-> <<>>,
         outcome |-> "", request |-> "", url |-> NoUrl, extra |-> <<>>,
         readyAtCall |-> FALSE, settledAtCall |-> TRUE, client |-> 0,
         before |-> {}]

Contains(seq, x) == \E i \in 1..Len(seq) : seq[i] = x

RECURSIVE Count(_, _)
Count(seq, x) ==
    IF seq = <<>> THEN 0
    ELSE (IF Head(seq) = x THEN 1 ELSE 0) + Count(Tail(seq), x)

ObjectStates ==
    {[exists |-> FALSE, tags |-> {}]} \cup [exists : {TRUE}, tags : TagSets]

\* ---- constructor: `this.options = options`, `this.s3` left unset ----
\* The instances are constructed from one options object, as the instances of
\* one application are.
InitAdapters ==
    /\ \E o \in OptionSets : options = [a \in Adapters |-> o]
    /\ s3 = [a \in Adapters |-> 0]
    /\ calls = [c \in Calls |-> IdleCall]
    /\ nSetups = 0
    /\ nExternal = 0
    /\ clean = FALSE
    /\ ready = [a \in Adapters |-> FALSE]
    /\ lastMark = [k \in Keys |-> "none"]
    /\ last = NoOp

\* the bucket as the lifecycle setup may find it
Init ==
    /\ InitAdapters
    /\ bucketExists \in BOOLEAN
    /\ lifecycle \in LifecycleConfigs
    /\ objects = [k \in Keys |-> [exists |-> bucketExists, tags |-> {}]]

\* the objects as the per-key operations may find them
InitOps ==
    /\ InitAdapters
    /\ bucketExists \in BOOLEAN
    /\ lifecycle = [present |-> FALSE, rules |-> NoRules]
    /\ objects \in [Keys -> ObjectStates]
    /\ \A k \in Keys : objects[k].exists => bucketExists

\* ---- setupLifecycle (one step per awaited request) ----

\* `!this.options.accessKeyId || !this.options.secretAccessKey`
CredentialsMissingAnd(o) ==
    ~Truthy(o.accessKeyId) /\ ~Truthy(o.secretAccessKey)
CredentialsMissing(o) ==
    ~Truthy(o.accessKeyId) \/ ~Truthy(o.secretAccessKey)

MissingCredentialsError ==
    <<"Error", "Missing AWS credentials in environment variables">>

\* what HeadBucket may answer
ProbeFailures(exists) ==
    IF exists THEN {"Forbidden", "NetworkError"}
              ELSE {"NotFound", "NetworkError"}
ProbeOutcomes(exists) ==
    (IF exists THEN {"ok"} ELSE {}) \cup ProbeFailures(exists)

\* `catch { throw new Error(`Bucket "${bucket}" does not exist`) }`
ProbeErrorRethrown(bucket, cause) == <<cause>>
ProbeError(bucket, cause) == <<"Error", "Bucket", bucket, "does not exist">>

\* what GetBucketLifecycleConfiguration may answer
LifecycleReadOutcomes(lc) ==
    (IF lc.present THEN {"ok"} ELSE {"NoSuchLifecycleConfiguration"})
        \cup ServiceErrors

\* `res.Rules?.some((r) => r.ID === CLEANUP_RULE_ID) ?? false`
RuleExistsNever(rules) == FALSE
RuleExists(rules) == Contains(rules, CLEANUP_RULE_ID)

\* `if (e.name !== "NoSuchLifecycleConfiguration") throw e`
RethrownNever(name) == FALSE
Rethrown(name) == name # "NoSuchLifecycleConfiguration"

\* the bucket's configuration after the PutBucketLifecycleConfiguration
\* request of setupLifecycle is applied to configuration lc
LifecycleAfterPutMerged(lc) ==
    [present |-> TRUE, rules |-> lc.rules \o <<CLEANUP_RULE_ID>>]
LifecycleAfterPut(lc) ==
    [present |-> TRUE, rules |-> <<CLEANUP_RULE_ID>>]

\* bookkeeping of a call that returns normally
Succeed(c, call) ==
    /\ calls' = [calls EXCEPT ![c] = [call EXCEPT !.pc = "done"]]
    /\ ready' = [ready EXCEPT ![call.adapter] = TRUE]
    /\ clean' = (clean \/ ~call.disturbed)

Fail(c, call, e) ==
    /\ calls' = [calls EXCEPT ![c] = [call EXCEPT !.pc = "done", !.err = e]]
    /\ UNCHANGED <<ready, clean>>

SetupStart(c, a) ==
    /\ calls[c].pc \in {"idle", "done"}
    /\ nSetups < MaxSetups
    /\ nSetups' = nSetups + 1
    /\ LET call == [IdleCall EXCEPT !.adapter = a, !.inSucc = clean] IN
       IF CredentialsMissing(options[a])
       THEN /\ Fail(c, call, MissingCredentialsError)
            /\ UNCHANGED s3
       ELSE /\ s3' = [s3 EXCEPT ![a] = @ + 1]
            /\ calls' = [calls EXCEPT ![c] = [call EXCEPT !.pc = "head"]]
            /\ UNCHANGED <<ready, clean>>
    /\ UNCHANGED <<options, bucketExists, lifecycle, objects, nExternal,
                   lastMark, last>>

SetupHeadBucket(c) ==
    /\ calls[c].pc = "head"
    /\ LET call == [calls[c] EXCEPT !.reqs = Append(@, "HeadBucket")] IN
       \E out \in ProbeOutcomes(bucketExists) :
          IF out = "ok"
          THEN /\ calls' = [calls EXCEPT ![c] = [call EXCEPT !.pc = "get"]]
               /\ UNCHANGED <<ready, clean>>
          ELSE Fail(c, [call EXCEPT !.cause = out], ProbeError(Bucket, out))
    /\ UNCHANGED <<options, s3, bucketExists, lifecycle, objects, nSetups,
                   nExternal, lastMark, last>>

SetupGetLifecycle(c) ==
    /\ calls[c].pc = "get"
    /\ LET call == [calls[c] EXCEPT
                       !.reqs = Append(@, "GetBucketLifecycleConfiguration")]
       IN
       \E out \in LifecycleReadOutcomes(lifecycle) :
          IF out = "ok"
          THEN LET found == RuleExists(lifecycle.rules)
                   read == [call EXCEPT !.ruleExists = found,
                                        !.seen = lifecycle.rules]
               IN IF found
                  THEN Succeed(c, read)
                  ELSE /\ calls' = [calls EXCEPT
                                       ![c] = [read EXCEPT !.pc = "put"]]
                       /\ UNCHANGED <<ready, clean>>
          ELSE IF Rethrown(out)
               THEN Fail(c, [call EXCEPT !.readErr = out], <<out>>)
               ELSE /\ calls' = [calls EXCEPT ![c] =
                           [call EXCEPT !.pc = "put", !.readErr = out]]
                    /\ UNCHANGED <<ready, clean>>
    /\ UNCHANGED <<options, s3, bucketExists, lifecycle, objects, nSetups,
                   nExternal, lastMark, last>>

SetupPutLifecycle(c) ==
    /\ calls[c].pc = "put"
    /\ LET call == [calls[c] EXCEPT
                       !.reqs = Append(@, "PutBucketLifecycleConfiguration")]
       IN
       \E out \in {"ok"} \cup ServiceErrors :
          IF out = "ok"
          THEN /\ lifecycle' = LifecycleAfterPut(lifecycle)
               /\ Succeed(c, call)
          ELSE /\ Fail(c, [call EXCEPT !.putErr = out], <<out>>)
               /\ UNCHANGED lifecycle
    /\ UNCHANGED <<options, s3, bucketExists, objects, nSetups, nExternal,
                   lastMark, last>>

\* another party (console, another tool) rewrites the lifecycle configuration
ExternalLifecycleWrite ==
    /\ nExternal < MaxExternal
    /\ bucketExists
    /\ nExternal' = nExternal + 1
    /\ \E lc \in LifecycleConfigs \ {lifecycle} : lifecycle' = lc
    /\ calls' = [c \in Calls |->
                    IF calls[c].pc = "idle" THEN calls[c]
                    ELSE [calls[c] EXCEPT !.disturbed = TRUE]]
    /\ clean' = FALSE
    /\ UNCHANGED <<options, s3, bucketExists, objects, nSetups, ready,
                   lastMark, last>>

\* ---- the per-key operations (one awaited request each) ----

\* `this.options.s3ACL === "public-read"`
IsPublicReadNever(o) == FALSE
IsPublicRead(o) == o.s3ACL = "public-read"

\* `this.options.s3ACL || 'private'`
UploadACL(o) == IF Truthy(o.s3ACL) THEN o.s3ACL ELSE "private"

\* `expiresIn = 3600`
EffectiveExpiresIn(arg) == IF arg = <<>> THEN DefaultExpiresIn ELSE arg[1]

\* `TagSet: [{ Key: CLEANUP_TAG_KEY, Value: "true" }]` and `TagSet: []`
DeletionTagSet == {<<CLEANUP_TAG_KEY, "true">>}
NotDeletionTagSetFlagged == {<<CLEANUP_TAG_KEY, "false">>}
NotDeletionTagSet == {}

\* `https://${this.options.bucket}/${key}`
PublicUrl(bucket, key) ==
    [host |-> <<bucket>>, path |-> key, expires |-> <<>>, signed |-> FALSE]

\* getSignedUrl(this.s3, command, { expiresIn })
SignedUrl(bucket, key, expiresIn) ==
    [host |-> <<bucket, "s3", Region, "amazonaws.com">>, path |-> key,
     expires |-> <<expiresIn>>, signed |-> TRUE]

ObjectContentType(k) == IF k = "f/1.png" THEN "image/png" ELSE ""

\* what a request about key k may answer
KeyOutcomes(k) ==
    IF objects[k].exists THEN {"ok"} \cup ServiceErrors ELSE {"NoSuchKey"}

Pending(a) ==
    \E c \in Calls : calls[c].adapter = a /\ calls[c].pc \notin {"idle", "done"}

Called(op, a, k, arg) ==
    [NoOp EXCEPT !.op = op, !.adapter = a, !.key = k, !.arg = arg,
                 !.readyAtCall = ready[a], !.settledAtCall = ~Pending(a),
                 !.client = s3[a]]

\* `this.s3.send(...)` / `getSignedUrl(this.s3, ...)` with `this.s3` unset
Unset(call) == [call EXCEPT !.outcome = "TypeError"]

PutObjectTagging(op, a, k, tagSet, mark) ==
    LET call == [Called(op, a, k, <<>>) EXCEPT !.before = objects[k].tags] IN
    IF s3[a] = 0
    THEN /\ last' = Unset(call)
         /\ UNCHANGED <<objects, lastMark>>
    ELSE \E out \in KeyOutcomes(k) :
            /\ last' = [call EXCEPT !.request = "PutObjectTagging",
                                    !.outcome = out]
            /\ IF out = "ok"
               THEN /\ objects' = [objects EXCEPT ![k].tags = tagSet]
                    /\ lastMark' = [lastMark EXCEPT ![k] = mark]
               ELSE UNCHANGED <<objects, lastMark>>

MarkKeyForDeletion(a, k) ==
    /\ PutObjectTagging("markKeyForDeletion", a, k, DeletionTagSet,
                        "deletion")
    /\ UNCHANGED <<options, s3, bucketExists, lifecycle, calls, nSetups,
                   nExternal, clean, ready>>

MarkKeyForNotDeletion(a, k) ==
    /\ PutObjectTagging("markKeyForNotDeletion", a, k, NotDeletionTagSet,
                        "notDeletion")
    /\ UNCHANGED <<options, s3, bucketExists, lifecycle, calls, nSetups,
                   nExternal, clean, ready>>

GetUploadSignedUrl(a, k, ct, arg) ==
    /\ LET call == Called("getUploadSignedUrl", a, k, arg) IN
       IF s3[a] = 0
       THEN last' = Unset(call)
       ELSE last' = [call EXCEPT
                !.request = "presign PutObject", !.outcome = "ok",
                !.url = SignedUrl(Bucket, k, EffectiveExpiresIn(arg)),
                !.extra = <<"x-amz-tagging", CLEANUP_TAG_KEY, "=", "true",
                            ct, UploadACL(options[a])>>]
    /\ UNCHANGED <<options, s3, bucketExists, lifecycle, objects, calls,
                   nSetups, nExternal, clean, ready, lastMark>>

GetDownloadUrl(a, k, arg) ==
    /\ LET call == Called("getDownloadUrl", a, k, arg) IN
       IF IsPublicRead(options[a])
       THEN last' = [call EXCEPT !.outcome = "ok",
                                 !.url = PublicUrl(Bucket, k)]
       ELSE IF s3[a] = 0
       THEN last' = Unset(call)
       ELSE last' = [call EXCEPT
                !.request = "presign GetObject", !.outcome = "ok",
                !.url = SignedUrl(Bucket, k, EffectiveExpiresIn(arg))]
    /\ UNCHANGED <<options, s3, bucketExists, lifecycle, objects, calls,
                   nSetups, nExternal, clean, ready, lastMark>>

ObjectCanBeAccesedPublicly(a) ==
    /\ last' = [Called("objectCanBeAccesedPublicly", a, "", <<>>) EXCEPT
                   !.outcome = "ok",
                   !.extra = <<IF IsPublicRead(options[a]) THEN "true"
                                                           ELSE "false">>]
    /\ UNCHANGED <<options, s3, bucketExists, lifecycle, objects, calls,
                   nSetups, nExternal, clean, ready, lastMark>>

\* `if (!(stream instanceof Readable)) throw new Error(...)`
BodyOutcomes(k) ==
    IF objects[k].exists THEN {"Expected Body to be a Readable stream"} ELSE {}

GetKeyAsDataURL(a, k) ==
    /\ LET call == Called("getKeyAsDataURL", a, k, <<>>) IN
       IF s3[a] = 0
       THEN last' = Unset(call)
       ELSE \E out \in KeyOutcomes(k) \cup BodyOutcomes(k) :
               last' = [call EXCEPT
                  !.request = "GetObject", !.outcome = out,
                  !.extra = IF out # "ok" THEN <<>>
                            ELSE <<"data:",
                                   IF ObjectContentType(k) = ""
                                   THEN "application/octet-stream"
                                   ELSE ObjectContentType(k),
                                   ";base64,", k>>]
    /\ UNCHANGED <<options, s3, bucketExists, lifecycle, objects, calls,
                   nSetups, nExternal, clean, ready, lastMark>>

\* ---- specifications ----

\* lifecycle setup: concurrent setupLifecycle calls and other writers
Next ==
    \/ \E c \in Calls, a \in Adapters : SetupStart(c, a)
    \/ \E c \in Calls : SetupHeadBucket(c)
    \/ \E c \in Calls : SetupGetLifecycle(c)
    \/ \E c \in Calls : SetupPutLifecycle(c)
    \/ ExternalLifecycleWrite

Spec == Init /\ [][Next]_vars

\* the per-key operations, before, during and after one setupLifecycle at a time
NextOps ==
    \/ \E a \in Adapters : SetupStart("c1", a)
    \/ SetupHeadBucket("c1")
    \/ SetupGetLifecycle("c1")
    \/ SetupPutLifecycle("c1")
    \/ \E a \in Adapters, k \in Keys : MarkKeyForDeletion(a, k)
    \/ \E a \in Adapters, k \in Keys : MarkKeyForNotDeletion(a, k)
    \/ \E a \in Adapters, k \in Keys, ct \in ContentTypes, arg \in ExpiresArgs :
          GetUploadSignedUrl(a, k, ct, arg)
    \/ \E a \in Adapters, k \in Keys, arg \in ExpiresArgs :
          GetDownloadUrl(a, k, arg)
    \/ \E a \in Adapters : ObjectCanBeAccesedPublicly(a)
    \/ \E a \in Adapters, k \in Keys : GetKeyAsDataURL(a, k)

SpecOps == InitOps /\ [][NextOps]_vars

\* ---- properties ----

Returned(c) == calls[c].pc = "done" /\ calls[c].err = <<>>
Wrote(c) == Contains(calls[c].reqs, "PutBucketLifecycleConfiguration")
CleanupRules == Count(lifecycle.rules, "adminforth-unused-cleaner")

\* C1: a setupLifecycle call that begins after a setupLifecycle call has
\* returned normally, with no other party writing the bucket's lifecycle
\* configuration since that call began, never issues a lifecycle write, and
\* when it returns normally the bucket holds exactly one rule with the
\* identifier adminforth-unused-cleaner.
C1_SetupIdempotent ==
    \A c \in Calls :
        (calls[c].pc # "idle" /\ calls[c].inSucc /\ ~calls[c].disturbed) =>
            /\ calls[c].pc # "put"
            /\ ~Wrote(c)
            /\ Returned(c) => CleanupRules = 1

\* the second of two calls has returned; the first one created the rule
C1_Witness ==
    \E c, d \in Calls :
        /\ c # d
        /\ Returned(d) /\ Wrote(d) /\ ~calls[d].disturbed
        /\ Returned(c) /\ calls[c].inSucc /\ ~calls[c].disturbed
        /\ calls[c].ruleExists
        /\ calls[c].adapter = calls[d].adapter

\* C2 (as claimed): a service-dependent operation called on an adapter on
\* which no setupLifecycle call has returned normally (and none is pending)
\* fails and puts no request through a client.
ServiceDependent(r) ==
    \/ r.op \in {"markKeyForDeletion", "markKeyForNotDeletion",
                 "getKeyAsDataURL", "getUploadSignedUrl"}
    \/ r.op = "getDownloadUrl" /\ options[r.adapter].s3ACL # "public-read"

C2_NoRequestBeforeSetupSucceeds ==
    (ServiceDependent(last) /\ ~last.readyAtCall /\ last.settledAtCall) =>
        (last.outcome # "ok" /\ last.request = "")

\* C3: on an adapter whose accessKeyId or secretAccessKey is absent or empty
\* no client is ever created, and every setupLifecycle call on it ends with
\* the configuration error without having sent a request.
C3_MissingCredentialsFailFast ==
    \A a \in Adapters :
        (\/ options[a].accessKeyId \in {"undefined", ""}
         \/ options[a].secretAccessKey \in {"undefined", ""}) =>
            /\ s3[a] = 0
            /\ \A c \in Calls :
                  (calls[c].pc # "idle" /\ calls[c].adapter = a) =>
                      /\ calls[c].pc = "done"
                      /\ calls[c].err = <<"Error",
                             "Missing AWS credentials in environment variables">>
                      /\ calls[c].reqs = <<>>

\* only one of the two credentials is missing, and the call has failed
C3_Witness ==
    \E c \in Calls :
        /\ calls[c].pc = "done"
        /\ calls[c].err = MissingCredentialsError
        /\ options[calls[c].adapter].accessKeyId = "AKIA"
        /\ options[calls[c].adapter].secretAccessKey = ""

\* C4: the tag set of a key is decided by the last mark operation that
\* succeeded on it: exactly {adminforth-candidate-for-cleanup = "true"} after
\* markKeyForDeletion, empty after markKeyForNotDeletion, whatever the tags
\* were before; and a step that repeats the last mark leaves the tags as
\* they are.
C4_TagsAfterMark ==
    \A k \in Keys :
        /\ lastMark[k] = "deletion" =>
              objects[k].tags = {<<"adminforth-candidate-for-cleanup", "true">>}
        /\ lastMark[k] = "notDeletion" => objects[k].tags = {}

C4_MarkIdempotent ==
    \A k \in Keys :
        (lastMark[k] # "none" /\ lastMark'[k] = lastMark[k]) =>
            objects'[k].tags = objects[k].tags

\* C4: in every state the last successful mark decides the key's tag set
\* (full overwrite), and no step that repeats it changes the tags
\* (idempotence).
C4_LastMarkDecidesTags == []C4_TagsAfterMark /\ [][C4_MarkIdempotent]_vars

\* markKeyForNotDeletion succeeded on a key that carried the cleanup tag and
\* an unrelated tag
C4_Witness ==
    /\ last.op = "markKeyForNotDeletion"
    /\ last.outcome = "ok"
    /\ last.before = {<<CLEANUP_TAG_KEY, "true">>, OtherTag}
    /\ lastMark[last.key] = "notDeletion"

\* C5: whatever made the bucket probe fail, the call ends with the error
\* 'Bucket "<bucket>" does not exist' and has sent nothing but the probe; a
\* call that has sent a lifecycle read or write sent the probe first and the
\* probe succeeded.
C5_ProbeFailureUniform ==
    \A c \in Calls :
        /\ calls[c].cause # "" =>
              /\ calls[c].pc = "done"
              /\ calls[c].err = <<"Error", "Bucket", "assets", "does not exist">>
              /\ calls[c].reqs = <<"HeadBucket">>
        /\ Len(calls[c].reqs) > 1 =>
              /\ calls[c].reqs[1] = "HeadBucket"
              /\ calls[c].cause = ""

\* the probe was denied on a bucket that exists
C5_Witness ==
    \E c \in Calls :
        calls[c].cause = "Forbidden" /\ bucketExists /\ calls[c].pc = "done"

\* C6: a lifecycle read that fails with NoSuchLifecycleConfiguration does not
\* end the call: the rule counts as not found and the call goes on to write
\* it; any other read failure ends the call with that very error and without
\* a write; and a call returns normally only if no request of it failed
\* otherwise.
C6_OnlyNoConfigSwallowed ==
    \A c \in Calls :
        /\ calls[c].readErr = "NoSuchLifecycleConfiguration" =>
              /\ ~calls[c].ruleExists
              /\ calls[c].pc = "put" \/ Wrote(c)
              /\ calls[c].err # <<>> => calls[c].err = <<calls[c].putErr>>
        /\ calls[c].readErr \notin {"", "NoSuchLifecycleConfiguration"} =>
              /\ calls[c].pc = "done"
              /\ calls[c].err = <<calls[c].readErr>>
              /\ ~Wrote(c)
        /\ Returned(c) =>
              /\ calls[c].cause = ""
              /\ calls[c].putErr = ""
              /\ calls[c].readErr \in {"", "NoSuchLifecycleConfiguration"}

\* the read met NoSuchLifecycleConfiguration and the call created the rule
C6_Witness ==
    \E c \in Calls :
        /\ calls[c].readErr = "NoSuchLifecycleConfiguration"
        /\ Returned(c) /\ Wrote(c)
        /\ lifecycle.present

\* C7: in public-read mode getDownloadUrl returns https://<bucket>/<key>,
\* unsigned and without expiry, whatever expiresIn is and whether or not a
\* client exists, and signs nothing; in any other mode what it returns is a
\* signed URL whose validity is expiresIn, 3600 when omitted.
C7_DownloadUrl ==
    last.op = "getDownloadUrl" =>
        IF options[last.adapter].s3ACL = "public-read"
        THEN /\ last.outcome = "ok"
             /\ last.request = ""
             /\ last.url = [host |-> <<"assets">>, path |-> last.key,
                            expires |-> <<>>, signed |-> FALSE]
        ELSE last.outcome = "ok" =>
                /\ last.client # 0
                /\ last.request = "presign GetObject"
                /\ last.url.signed
                /\ last.url.path = last.key
                /\ last.url.expires =
                      <<IF last.arg = <<>> THEN 3600 ELSE last.arg[1]>>

\* a public URL handed out for an explicit expiresIn before any setupLifecycle
C7_Witness ==
    /\ last.op = "getDownloadUrl"
    /\ options[last.adapter].s3ACL = "public-read"
    /\ last.arg = <<900>>
    /\ last.client = 0
    /\ last.outcome = "ok"

\* C8 (as claimed): an adapter creates a client once; every later operation,
\* setupLifecycle included, reuses it.
C8_ClientCreatedOnce == \A a \in Adapters : s3[a] <= 1

\* C9: the bucket never holds two rules with the identifier
\* adminforth-unused-cleaner, and once two setupLifecycle calls have both
\* returned normally, with no other party writing the lifecycle configuration
\* since either began, it holds exactly one.
C9_ConcurrentSetupOneRule ==
    /\ CleanupRules <= 1
    /\ \A c, d \in Calls :
          (c # d /\ Returned(c) /\ Returned(d)
               /\ ~calls[c].disturbed /\ ~calls[d].disturbed) =>
              CleanupRules = 1

\* both calls saw the rule absent and both issued the create
C9_Witness ==
    \E c, d \in Calls :
        /\ c # d
        /\ Returned(c) /\ Wrote(c) /\ ~calls[c].disturbed
        /\ Returned(d) /\ Wrote(d) /\ ~calls[d].disturbed
        /\ calls[c].adapter # calls[d].adapter

\* C10: a setupLifecycle call that did not find the rule writes a
\* configuration holding the cleanup rule alone, whatever rules the bucket
\* had; a call that found the rule writes nothing, and the step in which it
\* finds it leaves the configuration as it is.
C10_WriteReplaces ==
    \A c \in Calls :
        /\ (Returned(c) /\ Wrote(c) /\ ~calls[c].disturbed) =>
              lifecycle = [present |-> TRUE,
                           rules |-> <<"adminforth-unused-cleaner">>]
        /\ calls[c].ruleExists => (~Wrote(c) /\ calls[c].pc = "done")

C10_ReadKeeps ==
    \A c \in Calls :
        (calls[c].pc = "get" /\ calls'[c].pc = "done") => lifecycle' = lifecycle

\* C10: the write of setupLifecycle replaces the whole configuration by the
\* cleanup rule alone, and a call that finds the rule leaves the
\* configuration unchanged.
C10_PutReplacesConfiguration == []C10_WriteReplaces /\ [][C10_ReadKeeps]_vars

\* the call read a configuration of other rules only and replaced it
C10_Witness ==
    \E c \in Calls :
        /\ Returned(c) /\ Wrote(c) /\ ~calls[c].disturbed
        /\ calls[c].seen = <<OtherRule>>
        /\ lifecycle.rules = <<CLEANUP_RULE_ID>>
=============================================================================
